---- MODULE Spec2Model ----
(***************************************************************************)
(* ImageToLatentsInvocation (invokeai/app/invocations/image_to_latents.py) *)
(* as a state machine: invoke, vae_encode and _encode_to_tensor, run by    *)
(* one worker (Spec) or by two workers on the same loaded VAE (SpecConc).  *)
(***************************************************************************)
EXTENDS Integers, Sequences, FiniteSets, TLC

\* Number of invocations the scheduler starts in one behaviour.
MaxCalls == 2

Workers == {"w1", "w2"}

DTypes == {"float16", "bfloat16", "float32"}

\* Parts of the model that vae_encode casts separately; "encoder" holds the
\* model's first parameter, which is what vae.dtype reports.
Submodules == {"encoder", "post_quant_conv", "decoder_conv_in", "decoder_mid_block", "rest"}

RestoredSubmodules == {"post_quant_conv", "decoder_conv_in", "decoder_mid_block"}

EfficientAttention == {"AttnProcessor2_0", "XFormersAttnProcessor", "LoRAXFormersAttnProcessor", "LoRAAttnProcessor2_0"}

Processors == {"AttnProcessor", "AttnProcessor2_0", "XFormersAttnProcessor",
               "LoRAXFormersAttnProcessor", "LoRAAttnProcessor2_0"}

\* The image store: name -> PIL image (size), and whether the conversion
\* utility hands back an already batched tensor for it.
ImageNames == {"cat", "dog"}

Images == [cat |-> [w |-> 64, h |-> 64, batched |-> FALSE],
           dog |-> [w |-> 70, h |-> 52, batched |-> TRUE]]

ModelNames == {"vae"}

\* The models the loader can hand out.
KLModels == {[class |-> "AutoencoderKL", is_module |-> TRUE, has_decoder |-> TRUE,
              has_mid_block |-> TRUE, processor |-> p, encode_output |-> "latent_dist"] :
             p \in Processors}

TinyModels == {[class |-> "AutoencoderTiny", is_module |-> TRUE, has_decoder |-> TRUE,
                has_mid_block |-> FALSE, processor |-> "none", encode_output |-> "latents"]}

OtherModels == {[class |-> "Other", is_module |-> TRUE, has_decoder |-> TRUE,
                 has_mid_block |-> TRUE, processor |-> "XFormersAttnProcessor",
                 encode_output |-> "latent_dist"],
                [class |-> "Other", is_module |-> TRUE, has_decoder |-> FALSE,
                 has_mid_block |-> FALSE, processor |-> "none", encode_output |-> "latents"],
                [class |-> "Other", is_module |-> FALSE, has_decoder |-> FALSE,
                 has_mid_block |-> FALSE, processor |-> "none", encode_output |-> "latents"]}

Models == KLModels \cup TinyModels \cup OtherModels

NoTensor == [kind |-> "none", dtype |-> "none", shape |-> <<>>, src |-> "none",
             lossy |-> {}, enc_dtype |-> "none", tiled_enc |-> FALSE, noise |-> 0,
             scaled |-> FALSE]

NoCall == [made |-> FALSE, ok |-> FALSE, image |-> "none", tiled |-> FALSE, fp32 |-> FALSE,
           pixels |-> NoTensor, out |-> NoTensor]

NoInput == [image |-> "none", vae |-> "none", tiled |-> FALSE, fp32 |-> FALSE]

VARIABLES
    vae,          \* the loaded model's class and structure (fixed)
    loaded_dtype, \* the precision the model was loaded in (fixed)
    dt,           \* precision of each submodule of the loaded model
    use_tiling,   \* the model's tiling flag
    store,        \* the tensor store: the tensors saved so far, in order
    calls,        \* invocations started
    lastRec,      \* the latest vae_encode call that ended
    pc,           \* per worker: position in invoke / vae_encode
    err,          \* per worker: the exception that ended the invocation
    inp,          \* per worker: the node's fields (image, vae, tiled, fp32)
    raw,          \* per worker: image_resized_to_grid_as_tensor's result
    image_tensor, \* per worker: the local image_tensor
    orig_dtype,   \* per worker: the local orig_dtype
    latents,      \* per worker: the local latents
    held,         \* per worker: inside `with vae_info as vae`
    enter_dtype,  \* per worker: vae.dtype at the moment the scope was entered
    strategy,     \* per worker: the _encode_to_tensor implementation that ran
    before,       \* per worker: the vae_encode call that ended last before this one
    start_len,    \* per worker: Len(store) when the invocation started
    trail         \* per worker: the steps this invocation has executed

vars == <<vae, loaded_dtype, dt, use_tiling, store, calls, lastRec, pc, err, inp,
          raw, image_tensor, orig_dtype, latents, held, enter_dtype, strategy, before,
          start_len, trail>>

modelVars == <<dt, use_tiling>>

localVars == <<raw, image_tensor, orig_dtype, latents, enter_dtype, strategy, before>>

logVars == <<lastRec>>

----------------------------------------------------------------------------
\* Pure helpers

\* torch.nn.Module.to(dtype) on the whole model.
AllTo(d) == [s \in Submodules |-> d]

\* ModelMixin.dtype: the dtype of the model's first parameter.
VaeDtype(m) == m["encoder"]

\* Tensor.to(dtype): a cast to a narrower format rounds the values.
Cast(t, d) == [t EXCEPT !.dtype = d,
                        !.lossy = IF d = "float32" \/ d = t.dtype THEN @ ELSE @ \cup {d}]

\* image_resized_to_grid_as_tensor: RGB, sides snapped down to a multiple of 8.
Snap(x) == x - (x % 8)

ToTensor(name) ==
    LET im == Images[name]
        chw == <<3, Snap(im.h), Snap(im.w)>>
    IN [NoTensor EXCEPT !.kind = "pixels", !.dtype = "float32", !.src = name,
                        !.shape = IF im.batched THEN <<1>> \o chw ELSE chw]

NormalizeRankAppend(shape) == IF Len(shape) = 3 THEN shape \o <<1>> ELSE shape

\* if image_tensor.dim() == 3: rearrange "c h w -> 1 c h w"
NormalizeRank(shape) == IF Len(shape) = 3 THEN <<1>> \o shape ELSE shape

\* Shape of the latents a VAE encode returns for a (b, 3, h, w) input.
LatentShape(shape) == <<shape[1], 4, shape[3] \div 8, shape[4] \div 8>>

PrecisionForHalfOnly(upcast) == "float16"

\* The precision vae_encode switches the model to.
PrecisionFor(upcast) == IF upcast THEN "float32" ELSE "float16"

UseEfficientAny(v) == v.has_mid_block \/ v.processor \in EfficientAttention

\* use_torch_2_0_or_xformers
UseEfficient(v) == v.has_mid_block /\ v.processor \in EfficientAttention

\* Which _encode_to_tensor implementation singledispatch picks: the one
\* registered for AutoencoderTiny, else the base function (registered for
\* object), whatever the annotation of its first parameter says.
Dispatch(class) == IF class = "AutoencoderTiny" THEN "tiny" ELSE "base"

CastBackToCurrent(o, m) == VaeDtype(m)

\* latents.to(dtype=orig_dtype): the dtype the returned latents are cast to.
CastBackTarget(o, m) == o

ModelRestoredOnExit(m, o) == AllTo(o)

\* The model as vae_encode leaves it when the scope ends: nothing casts it back.
ModelOnExit(m, o) == m

TilingEnableOnly(flag, tiled) == flag \/ tiled

\* enable_tiling() / disable_tiling(): the flag after the branch on `tiled`.
TilingAfter(flag, tiled) == tiled

ScopeExitOnSuccess(i, failed) == [held EXCEPT ![i] = failed]

\* Leaving `with vae_info as vae`, normally or by an exception.
ScopeExit(i, failed) == [held EXCEPT ![i] = FALSE]

\* The scoped handle grants exclusive use of the loaded model.
Exclusive(i) == \A j \in Workers : ~held[j]

Swallow(i, e) == pc' = [pc EXCEPT ![i] = "save"] /\ err' = err

\* An exception leaves invoke: nothing in the node catches it.
Propagate(i, e) == pc' = [pc EXCEPT ![i] = "error"] /\ err' = [err EXCEPT ![i] = e]

Trace(i) == trail' = [trail EXCEPT ![i] = Append(@, pc[i])]

\* invoke is over: its frame (arguments and locals) is gone.
Unwind(i) ==
    /\ inp' = [inp EXCEPT ![i] = NoInput]
    /\ raw' = [raw EXCEPT ![i] = NoTensor]
    /\ image_tensor' = [image_tensor EXCEPT ![i] = NoTensor]
    /\ orig_dtype' = [orig_dtype EXCEPT ![i] = "none"]
    /\ latents' = [latents EXCEPT ![i] = NoTensor]
    /\ enter_dtype' = [enter_dtype EXCEPT ![i] = "none"]
    /\ before' = [before EXCEPT ![i] = NoCall]
    /\ trail' = [trail EXCEPT ![i] = <<>>]

Goto(i, next) == pc' = [pc EXCEPT ![i] = next] /\ Trace(i)

\* The record of worker i's vae_encode call: its arguments and what it returned.
CallRec(i) == [made |-> TRUE, ok |-> TRUE, image |-> inp[i].image,
               tiled |-> inp[i].tiled, fp32 |-> inp[i].fp32,
               pixels |-> raw[i], out |-> latents[i]]

FailedCall == [NoCall EXCEPT !.made = TRUE]

Log(i, ok) == lastRec' = IF ok THEN CallRec(i) ELSE FailedCall

\* An exception raised inside the `with` block.
RaiseInScope(i, e) ==
    /\ held' = ScopeExit(i, TRUE)
    /\ Propagate(i, e)
    /\ Unwind(i)
    /\ Log(i, FALSE)

----------------------------------------------------------------------------
Init ==
    /\ vae \in Models
    /\ loaded_dtype \in DTypes
    /\ dt = AllTo(loaded_dtype)
    /\ use_tiling = FALSE
    /\ store = <<>>
    /\ calls = 0
    /\ lastRec = NoCall
    /\ pc = [i \in Workers |-> "idle"]
    /\ err = [i \in Workers |-> "none"]
    /\ inp = [i \in Workers |-> NoInput]
    /\ raw = [i \in Workers |-> NoTensor]
    /\ image_tensor = [i \in Workers |-> NoTensor]
    /\ orig_dtype = [i \in Workers |-> "none"]
    /\ latents = [i \in Workers |-> NoTensor]
    /\ held = [i \in Workers |-> FALSE]
    /\ enter_dtype = [i \in Workers |-> "none"]
    /\ strategy = [i \in Workers |-> "none"]
    /\ before = [i \in Workers |-> NoCall]
    /\ start_len = [i \in Workers |-> 0]
    /\ trail = [i \in Workers |-> <<>>]

\* The concurrent runs start from a model of each kind, loaded in half precision.
InitConc ==
    /\ Init
    /\ vae \in {m \in Models : m.processor \in {"none", "AttnProcessor2_0"}}
    /\ loaded_dtype = "float16"

\* The scheduler runs the node with some field values.
Invoke(i) ==
    /\ pc[i] \in {"idle", "done", "error"}
    /\ calls < MaxCalls
    /\ calls' = calls + 1
    /\ \E im \in ImageNames \cup {"missing"}, v \in ModelNames \cup {"missing"},
          t \in BOOLEAN, f \in BOOLEAN :
          inp' = [inp EXCEPT ![i] = [image |-> im, vae |-> v, tiled |-> t, fp32 |-> f]]
    /\ pc' = [pc EXCEPT ![i] = "get_pil"]
    /\ err' = [err EXCEPT ![i] = "none"]
    /\ raw' = [raw EXCEPT ![i] = NoTensor]
    /\ image_tensor' = [image_tensor EXCEPT ![i] = NoTensor]
    /\ orig_dtype' = [orig_dtype EXCEPT ![i] = "none"]
    /\ latents' = [latents EXCEPT ![i] = NoTensor]
    /\ enter_dtype' = [enter_dtype EXCEPT ![i] = "none"]
    /\ strategy' = [strategy EXCEPT ![i] = "none"]
    /\ before' = [before EXCEPT ![i] = NoCall]
    /\ start_len' = [start_len EXCEPT ![i] = Len(store)]
    /\ trail' = [trail EXCEPT ![i] = <<>>]
    /\ UNCHANGED <<vae, loaded_dtype, modelVars, store, logVars, held>>

\* image = context.images.get_pil(self.image.image_name)
GetImage(i) ==
    /\ pc[i] = "get_pil"
    /\ inp[i].image \in ImageNames
    /\ Goto(i, "load")
    /\ UNCHANGED <<vae, loaded_dtype, modelVars, store, calls, logVars, err, inp, localVars,
                   held, start_len>>

GetImageFail(i) ==
    /\ pc[i] = "get_pil"
    /\ inp[i].image \notin ImageNames
    /\ Propagate(i, "ResolutionError")
    /\ Unwind(i)
    /\ UNCHANGED <<vae, loaded_dtype, modelVars, store, calls, logVars, strategy,
                   held, start_len>>

\* vae_info = context.models.load(self.vae.vae)
LoadModel(i) ==
    /\ pc[i] = "load"
    /\ inp[i].vae \in ModelNames
    /\ Goto(i, "to_tensor")
    /\ UNCHANGED <<vae, loaded_dtype, modelVars, store, calls, logVars, err, inp, localVars,
                   held, start_len>>

LoadModelFail(i) ==
    /\ pc[i] = "load"
    /\ inp[i].vae \notin ModelNames
    /\ Propagate(i, "ResolutionError")
    /\ Unwind(i)
    /\ UNCHANGED <<vae, loaded_dtype, modelVars, store, calls, logVars, strategy,
                   held, start_len>>

\* image_tensor = image_resized_to_grid_as_tensor(...); add the batch axis
Convert(i) ==
    /\ pc[i] = "to_tensor"
    /\ LET t == ToTensor(inp[i].image)
       IN /\ raw' = [raw EXCEPT ![i] = t]
          /\ image_tensor' = [image_tensor EXCEPT ![i] =
                                 [t EXCEPT !.shape = NormalizeRank(t.shape)]]
    /\ Goto(i, "enter")
    /\ UNCHANGED <<vae, loaded_dtype, modelVars, store, calls, logVars, err, inp, orig_dtype,
                   latents, enter_dtype, strategy, before, held, start_len>>

\* with vae_info as vae:
Enter(i) ==
    /\ pc[i] = "enter"
    /\ Exclusive(i)
    /\ held' = [held EXCEPT ![i] = TRUE]
    /\ enter_dtype' = [enter_dtype EXCEPT ![i] = VaeDtype(dt)]
    /\ before' = [before EXCEPT ![i] = lastRec]
    /\ Goto(i, "orig")
    /\ UNCHANGED <<vae, loaded_dtype, modelVars, store, calls, logVars, err, inp, raw,
                   image_tensor, orig_dtype, latents, strategy, start_len>>

\* assert isinstance(vae, torch.nn.Module); orig_dtype = vae.dtype
RecordDtype(i) ==
    /\ pc[i] = "orig"
    /\ vae.is_module
    /\ orig_dtype' = [orig_dtype EXCEPT ![i] = VaeDtype(dt)]
    /\ Goto(i, "precision")
    /\ UNCHANGED <<vae, loaded_dtype, modelVars, store, calls, logVars, err, inp, raw,
                   image_tensor, latents, enter_dtype, strategy, before, held, start_len>>

AssertFail(i) ==
    /\ pc[i] = "orig"
    /\ ~vae.is_module
    /\ RaiseInScope(i, "AssertionError")
    /\ UNCHANGED <<vae, loaded_dtype, modelVars, store, calls, strategy, start_len>>

\* vae.to(dtype=torch.float32)  /  vae.to(dtype=torch.float16)
SwitchPrecision(i) ==
    /\ pc[i] = "precision"
    /\ dt' = AllTo(PrecisionFor(inp[i].fp32))
    /\ Goto(i, IF inp[i].fp32 THEN "attention" ELSE "tiling")
    /\ UNCHANGED <<vae, loaded_dtype, use_tiling, store, calls, logVars, err, inp, localVars,
                   held, start_len>>

\* use_torch_2_0_or_xformers = ...; the three submodules go back to orig_dtype
Attention(i) ==
    /\ pc[i] = "attention"
    /\ vae.has_decoder
    /\ dt' = IF UseEfficient(vae)
             THEN [s \in Submodules |->
                      IF s \in RestoredSubmodules THEN orig_dtype[i] ELSE dt[s]]
             ELSE dt
    /\ Goto(i, "tiling")
    /\ UNCHANGED <<vae, loaded_dtype, use_tiling, store, calls, logVars, err, inp, localVars,
                   held, start_len>>

\* vae.decoder on a model that has no decoder
AttentionFail(i) ==
    /\ pc[i] = "attention"
    /\ ~vae.has_decoder
    /\ RaiseInScope(i, "AttributeError")
    /\ UNCHANGED <<vae, loaded_dtype, modelVars, store, calls, strategy, start_len>>

\* if tiled: vae.enable_tiling() else: vae.disable_tiling()
SetTiling(i) ==
    /\ pc[i] = "tiling"
    /\ use_tiling' = TilingAfter(use_tiling, inp[i].tiled)
    /\ Goto(i, "move")
    /\ UNCHANGED <<vae, loaded_dtype, dt, store, calls, logVars, err, inp, localVars,
                   held, start_len>>

\* image_tensor = image_tensor.to(device=vae.device, dtype=vae.dtype)
MoveTensor(i) ==
    /\ pc[i] = "move"
    /\ image_tensor' = [image_tensor EXCEPT ![i] = Cast(@, VaeDtype(dt))]
    /\ Goto(i, "encode")
    /\ UNCHANGED <<vae, loaded_dtype, modelVars, store, calls, logVars, err, inp, raw,
                   orig_dtype, latents, enter_dtype, strategy, before, held, start_len>>

\* What the model's encoder computes from image_tensor.
Encoded(i, noise) ==
    [kind |-> "latents", dtype |-> VaeDtype(dt), shape |-> LatentShape(image_tensor[i].shape),
     src |-> image_tensor[i].src, lossy |-> image_tensor[i].lossy,
     enc_dtype |-> VaeDtype(dt), tiled_enc |-> use_tiling, noise |-> noise,
     scaled |-> FALSE]

\* latents = ImageToLatentsInvocation._encode_to_tensor(vae, image_tensor)
Encode(i) ==
    /\ pc[i] = "encode"
    /\ LET s == Dispatch(vae.class)
       IN /\ strategy' = [strategy EXCEPT ![i] = s]
          /\ IF s = "tiny"
             THEN /\ vae.encode_output = "latents"
                  /\ latents' = [latents EXCEPT ![i] = Encoded(i, 0)]
             ELSE /\ vae.encode_output = "latent_dist"
                  /\ \E n \in {0, 1} :
                        latents' = [latents EXCEPT ![i] = Cast(Encoded(i, n), VaeDtype(dt))]
    /\ Goto(i, "scale")
    /\ UNCHANGED <<vae, loaded_dtype, modelVars, store, calls, logVars, err, inp, raw,
                   image_tensor, orig_dtype, enter_dtype, before, held, start_len>>

\* vae.encode(image_tensor).latent_dist on an output that has no latent_dist
EncodeFail(i) ==
    /\ pc[i] = "encode"
    /\ Dispatch(vae.class) = "base"
    /\ vae.encode_output # "latent_dist"
    /\ strategy' = [strategy EXCEPT ![i] = "base"]
    /\ RaiseInScope(i, "AttributeError")
    /\ UNCHANGED <<vae, loaded_dtype, modelVars, store, calls, start_len>>

\* latents = vae.config.scaling_factor * latents
Scale(i) ==
    /\ pc[i] = "scale"
    /\ latents' = [latents EXCEPT ![i] = [@ EXCEPT !.scaled = TRUE]]
    /\ Goto(i, "cast")
    /\ UNCHANGED <<vae, loaded_dtype, modelVars, store, calls, logVars, err, inp, raw,
                   image_tensor, orig_dtype, enter_dtype, strategy, before, held, start_len>>

\* latents = latents.to(dtype=orig_dtype)
CastBack(i) ==
    /\ pc[i] = "cast"
    /\ latents' = [latents EXCEPT ![i] = Cast(@, CastBackTarget(orig_dtype[i], dt))]
    /\ Goto(i, "return")
    /\ UNCHANGED <<vae, loaded_dtype, modelVars, store, calls, logVars, err, inp, raw,
                   image_tensor, orig_dtype, enter_dtype, strategy, before, held, start_len>>

\* the `with` block ends; return latents
Return(i) ==
    /\ pc[i] = "return"
    /\ held' = ScopeExit(i, FALSE)
    /\ dt' = ModelOnExit(dt, orig_dtype[i])
    /\ Log(i, TRUE)
    /\ Goto(i, "save")
    /\ UNCHANGED <<vae, loaded_dtype, use_tiling, store, calls, err, inp, localVars,
                   start_len>>

\* latents.to("cpu"); name = context.tensors.save(tensor=latents); LatentsOutput
Save(i) ==
    /\ pc[i] = "save"
    /\ store' = Append(store, latents[i])
    /\ pc' = [pc EXCEPT ![i] = "done"]
    /\ Unwind(i)
    /\ UNCHANGED <<vae, loaded_dtype, modelVars, calls, logVars, err, strategy,
                   held, start_len>>

FaultPoints == {"precision", "attention", "tiling", "move", "encode", "scale", "cast"}

\* Module.to casts the submodules one after the other, in this order.
ModuleOrder == <<"encoder", "decoder_conv_in", "decoder_mid_block", "rest", "post_quant_conv">>

RestoreOrder == <<"post_quant_conv", "decoder_conv_in", "decoder_mid_block">>

\* The sets of submodules already cast when a cast in order `ord` stops early.
CastPrefixes(ord) == {{ord[k] : k \in 1..n} : n \in 0..(Len(ord) - 1)}

\* The states a cast of several submodules can leave the model in when it
\* fails part of the way.
PartialCasts(i) ==
    IF pc[i] = "precision"
    THEN {[s \in Submodules |-> IF s \in S THEN PrecisionFor(inp[i].fp32) ELSE dt[s]] :
          S \in CastPrefixes(ModuleOrder)}
    ELSE IF pc[i] = "attention" /\ vae.has_decoder /\ UseEfficient(vae)
    THEN {[s \in Submodules |-> IF s \in S THEN orig_dtype[i] ELSE dt[s]] :
          S \in CastPrefixes(RestoreOrder)}
    ELSE {dt}

\* A step inside the scope fails in the compute library (out of memory, device).
Fault(i) ==
    /\ pc[i] \in FaultPoints
    /\ dt' \in PartialCasts(i)
    /\ RaiseInScope(i, "DeviceOrMemoryError")
    /\ UNCHANGED <<vae, loaded_dtype, use_tiling, store, calls, strategy, start_len>>

Step(i) ==
    \/ Invoke(i) \/ GetImage(i) \/ GetImageFail(i) \/ LoadModel(i) \/ LoadModelFail(i)
    \/ Convert(i) \/ Enter(i) \/ RecordDtype(i) \/ AssertFail(i) \/ SwitchPrecision(i)
    \/ Attention(i) \/ AttentionFail(i) \/ SetTiling(i) \/ MoveTensor(i) \/ Encode(i)
    \/ EncodeFail(i) \/ Scale(i) \/ CastBack(i) \/ Return(i) \/ Save(i) \/ Fault(i)

\* One worker runs the invocations one after the other.
Next == Step("w1")

Spec == Init /\ [][Next]_vars

\* Two workers run invocations on the same loaded model.
NextConc == \E i \in Workers : Step(i)

SpecConc == InitConc /\ [][NextConc]_vars

----------------------------------------------------------------------------
\* Properties

KnownClasses == {"AutoencoderKL", "AutoencoderTiny"}

\* Positions inside `with vae_info as vae`.
InScope == {"orig", "precision", "attention", "tiling", "move", "encode", "scale", "cast",
            "return"}

\* Positions inside the scope at which the precision switch has completed.
AfterSwitch == {"attention", "tiling", "move", "encode", "scale", "cast", "return"}

\* Positions at which invoke holds the image tensor it passes to vae_encode.
HasPixels == InScope \cup {"enter"}

StepsToSave(upcast) ==
    <<"get_pil", "load", "to_tensor", "enter", "orig", "precision">>
    \o (IF upcast THEN <<"attention">> ELSE <<>>)
    \o <<"tiling", "move", "encode", "scale", "cast", "return">>

NoRepeat(q) == \A a, b \in 1..Len(q) : q[a] = q[b] => a = b

SameInputs(a, b) ==
    /\ a.image = b.image /\ a.tiled = b.tiled /\ a.fp32 = b.fp32 /\ a.pixels = b.pixels

\* C1: the latents vae_encode returns are stored in the precision the model
\* had when the call entered the scope, whatever fp32 is and whichever model
\* is loaded.
C1_ReturnedPrecisionIsPreCall ==
    \A i \in Workers :
        pc[i] = "save" => /\ latents[i].kind = "latents"
                          /\ latents[i].dtype = enter_dtype[i]

C1_Witness ==
    \E i \in Workers :
        /\ pc[i] = "save" /\ inp[i].fp32
        /\ enter_dtype[i] = "bfloat16" /\ VaeDtype(dt) = "float32"
        /\ latents[i].dtype = "bfloat16"

\* C2: for a model that is neither AutoencoderKL nor AutoencoderTiny no
\* encode strategy runs, the invocation does not complete and the tensor
\* store is not written.
C2_UnsupportedVariantRejected ==
    vae.class \notin KnownClasses =>
        /\ store = <<>>
        /\ \A i \in Workers :
              /\ strategy[i] = "none"
              /\ pc[i] \notin {"scale", "cast", "return", "save", "done"}
              /\ err[i] \in {"none", "ResolutionError", "UnsupportedModelVariant"}

\* C3: with an AutoencoderTiny, an encode call whose inputs equal those of
\* the encode call that ended just before it returns the same tensor, in
\* values and in storage precision.
C3_TinyEncodeRepeatable ==
    \A i \in Workers :
        (/\ vae.class = "AutoencoderTiny"
         /\ pc[i] = "save"
         /\ before[i].ok
         /\ SameInputs(before[i], CallRec(i)))
        => latents[i] = before[i].out

\* C4: the handle is held only while the invocation is inside the scope: it
\* is released on the normal exit and on every failing exit.
C4_HandleReleasedOnEveryExit ==
    \A i \in Workers : held[i] <=> pc[i] \in InScope

C4_Witness ==
    \E i \in Workers :
        /\ pc[i] = "error" /\ err[i] = "DeviceOrMemoryError"
        /\ \A j \in Workers : ~held[j]
        /\ dt # AllTo(loaded_dtype)

\* C5: whenever an invocation is at its encode step, or has encoded, the
\* tiling flag and the model precision it encodes with are the ones its own
\* tiled and fp32 select, and no other invocation is inside the scope.
C5_EncodeRunsUnderOwnSettings ==
    \A i \in Workers :
        /\ pc[i] \in {"move", "encode"} => use_tiling = inp[i].tiled
        /\ pc[i] \in {"tiling", "move", "encode"} =>
              VaeDtype(dt) = (IF inp[i].fp32 THEN "float32" ELSE "float16")
        /\ pc[i] \in {"scale", "cast", "return", "save"} =>
              /\ latents[i].tiled_enc = inp[i].tiled
              /\ latents[i].enc_dtype = IF inp[i].fp32 THEN "float32" ELSE "float16"
        /\ pc[i] \in InScope => \A j \in Workers \ {i} : ~held[j] /\ pc[j] \notin InScope

C5_Witness ==
    \E i \in Workers, j \in Workers :
        /\ i # j
        /\ pc[i] = "encode" /\ pc[j] = "enter"
        /\ inp[i].tiled /\ ~inp[j].tiled
        /\ inp[i].fp32 /\ ~inp[j].fp32
        /\ held[i] /\ use_tiling /\ VaeDtype(dt) = "float32"

\* C6: an invocation saves one tensor, at its very end, after every step has
\* run once, in order, and the handle is released; an invocation that failed
\* has saved nothing; no step runs twice.
C6_SingleWriteAfterSuccess ==
    \A i \in Workers :
        pc[i] # "idle" =>
            /\ pc[i] # "done" => Len(store) = start_len[i]
            /\ pc[i] = "done" => Len(store) = start_len[i] + 1 /\ err[i] = "none"
            /\ pc[i] = "save" =>
                  /\ ~held[i] /\ err[i] = "none"
                  /\ trail[i] = StepsToSave(inp[i].fp32)
            /\ pc[i] = "error" <=> err[i] # "none"
            /\ NoRepeat(trail[i])

C6_Witness ==
    \E i \in Workers :
        /\ pc[i] = "error" /\ err[i] = "DeviceOrMemoryError"
        /\ Len(store) = 1 /\ start_len[i] = 1

\* C7: the image tensor handed to vae_encode has rank 4: a rank-3 conversion
\* result gets a leading axis of size 1, a rank-4 one is passed as it is.
C7_PixelTensorIsRank4 ==
    \A i \in Workers :
        pc[i] \in HasPixels =>
            /\ Len(image_tensor[i].shape) = 4
            /\ Len(raw[i].shape) = 3 => image_tensor[i].shape = <<1>> \o raw[i].shape
            /\ Len(raw[i].shape) = 4 => image_tensor[i].shape = raw[i].shape

C7_Witness ==
    \E i \in Workers :
        /\ pc[i] = "encode"
        /\ raw[i].shape = <<3, 64, 64>>
        /\ image_tensor[i].shape = <<1, 3, 64, 64>>

\* C8: when a call that has switched the precision leaves the scope, by
\* returning or by failing, the model reports the precision the call set
\* (float32 for fp32, float16 otherwise), not the one it had before.
C8_ModelKeepsCallPrecision ==
    [][\A i \in Workers :
          (held[i] /\ ~held'[i] /\ pc[i] \in AfterSwitch) =>
              VaeDtype(dt') = (IF inp[i].fp32 THEN "float32" ELSE "float16")]_vars

C8_Witness ==
    \E i \in Workers :
        /\ pc[i] = "save" /\ ~inp[i].fp32
        /\ enter_dtype[i] = "float32"
        /\ dt = AllTo("float16")
        /\ latents[i].dtype = "float32"

\* C9: after the precision step of a call with fp32 the whole model is
\* float32, except that with a decoder middle block whose processor is in the
\* allow-set the three named submodules have the pre-call precision; without
\* fp32 the whole model is float16.
C9_SelectiveRestore ==
    \A i \in Workers :
        /\ pc[i] = "attention" => dt = AllTo("float32")
        /\ pc[i] = "tiling" =>
              IF inp[i].fp32
              THEN \A s \in Submodules :
                      dt[s] = IF /\ s \in {"post_quant_conv", "decoder_conv_in",
                                           "decoder_mid_block"}
                                 /\ vae.has_mid_block
                                 /\ vae.processor \in {"AttnProcessor2_0",
                                                       "XFormersAttnProcessor",
                                                       "LoRAXFormersAttnProcessor",
                                                       "LoRAAttnProcessor2_0"}
                              THEN enter_dtype[i]
                              ELSE "float32"
              ELSE dt = AllTo("float16")

C9_Witness ==
    \E i \in Workers :
        /\ pc[i] = "tiling" /\ inp[i].fp32
        /\ vae.processor = "LoRAAttnProcessor2_0"
        /\ enter_dtype[i] = "bfloat16"
        /\ dt["post_quant_conv"] = "bfloat16" /\ dt["decoder_conv_in"] = "bfloat16"
        /\ dt["decoder_mid_block"] = "bfloat16"
        /\ dt["encoder"] = "float32" /\ dt["rest"] = "float32"

\* C10: the latents of an encode call that follows a completed encode call
\* have the precision the previous call's fp32 selected; those of the first
\* encode call have the precision the model was loaded in.
C10_OutputPrecisionFollowsPreviousCall ==
    \A i \in Workers :
        pc[i] = "save" =>
            /\ before[i].ok =>
                  latents[i].dtype = (IF before[i].fp32 THEN "float32" ELSE "float16")
            /\ ~before[i].made => latents[i].dtype = loaded_dtype

C10_Witness ==
    \E i \in Workers :
        /\ pc[i] = "save" /\ ~inp[i].fp32
        /\ before[i].ok /\ before[i].fp32
        /\ loaded_dtype = "bfloat16"
        /\ latents[i].dtype = "float32"

====
